---------------------------- MODULE Spec2Model ----------------------------
(***************************************************************************)
(* EasyPaper backend (app/src-tauri/src): build orchestration              *)
(* (svc_build.rs), project configuration (project.rs), template            *)
(* scaffolding (svc_template.rs) and the diagnostics extractor.            *)
(*                                                                         *)
(* Text is modelled by TLA+ strings, on which TLC evaluates Len, SubSeq    *)
(* and \o; every Rust str method the code calls is an operator below that  *)
(* computes what the method computes (ASCII text only, so byte offsets     *)
(* and character offsets coincide).                                       *)
(***************************************************************************)
EXTENDS Integers, Sequences, FiniteSets, TLC

(***************************************************************************)
(* Bounds of the model.                                                    *)
(***************************************************************************)
\* longest log file, in lines, handed to parse_latex_log
MaxLogLines == 7
\* most non-blank lines in such a log
MaxMarked == 3
\* most lines of stdout and stderr together handed to parse_tectonic_output
MaxOutLines == 3
\* most extra engine arguments in a configuration
MaxArgs == 2

(***************************************************************************)
(* Option<T>                                                               *)
(***************************************************************************)
None == [some |-> FALSE]

Some(v) == [some |-> TRUE, val |-> v]

(***************************************************************************)
(* Rust str methods                                                        *)
(***************************************************************************)
\* s[from..] with a 0-based offset
StrFrom(s, from) == SubSeq(s, from + 1, Len(s))

\* s[..to] with a 0-based exclusive end
StrTo(s, to) == SubSeq(s, 1, to)

\* str::starts_with
StartsWith(s, p) == Len(p) <= Len(s) /\ SubSeq(s, 1, Len(p)) = p

\* str::find: 0-based offset of the first occurrence of pat, -1 for None
Find(s, pat) ==
    LET hits == { i \in 0 .. (Len(s) - Len(pat)) :
                     SubSeq(s, i + 1, i + Len(pat)) = pat }
    IN  IF hits = {} THEN -1
        ELSE CHOOSE i \in hits : \A j \in hits : i <= j

\* str::contains
Contains(s, pat) == Find(s, pat) # -1

\* str::split(c).collect() for a one-character separator
RECURSIVE Split(_, _)
Split(s, c) ==
    LET p == Find(s, c)
    IN  IF p = -1 THEN << s >>
        ELSE << StrTo(s, p) >> \o Split(StrFrom(s, p + 1), c)

\* str::trim_start_matches: strips every leading repetition of p
RECURSIVE TrimStartMatches(_, _)
TrimStartMatches(s, p) ==
    IF Len(p) > 0 /\ StartsWith(s, p)
    THEN TrimStartMatches(StrFrom(s, Len(p)), p)
    ELSE s

\* str::replace: every non-overlapping occurrence, left to right
RECURSIVE Replace(_, _, _)
Replace(s, from, to) ==
    LET p == Find(s, from)
    IN  IF p = -1 THEN s
        ELSE StrTo(s, p) \o to \o Replace(StrFrom(s, p + Len(from)), from, to)

\* str::lines: split at "\n"; a final line ending adds no empty last line
RECURSIVE Lines(_)
Lines(s) ==
    IF s = "" THEN << >>
    ELSE LET p == Find(s, "\n")
         IN  IF p = -1 THEN << s >>
             ELSE << StrTo(s, p) >> \o Lines(StrFrom(s, p + 1))

Digits == << "0", "1", "2", "3", "4", "5", "6", "7", "8", "9" >>

IsDigit(c) == \E d \in 1 .. Len(Digits) : Digits[d] = c

DigitVal(c) == (CHOOSE d \in 1 .. Len(Digits) : Digits[d] = c) - 1

AllDigits(s) == \A i \in 1 .. Len(s) : IsDigit(SubSeq(s, i, i))

RECURSIVE DecimalValue(_)
DecimalValue(s) ==
    IF s = "" THEN 0
    ELSE 10 * DecimalValue(StrTo(s, Len(s) - 1)) + DigitVal(SubSeq(s, Len(s), Len(s)))

\* digit strings compared as numbers of equal length
RECURSIVE DigitsLeq(_, _)
DigitsLeq(a, b) ==
    IF a = "" THEN TRUE
    ELSE LET x == DigitVal(Head(a))
             y == DigitVal(Head(b))
         IN  x < y \/ (x = y /\ DigitsLeq(Tail(a), Tail(b)))

\* str::parse::<u32>: an optional "+", then one or more digits, at most
\* u32::MAX; None stands for Err
ParseU32(s) ==
    LET body == IF StartsWith(s, "+") THEN StrFrom(s, 1) ELSE s
        sig  == TrimStartMatches(body, "0")
    IN  IF body = "" \/ ~AllDigits(body) THEN None
        ELSE IF Len(sig) > 10 \/ (Len(sig) = 10 /\ ~DigitsLeq(sig, "4294967295"))
             THEN None
             ELSE Some(DecimalValue(sig))


(***************************************************************************)
(* Diagnostics extractor (svc_build.rs)                                    *)
(***************************************************************************)
\* BuildError / BuildWarning
Diagnostic(file, line, message) ==
    [file |-> file, line |-> line, message |-> message]

\* the lines extract_file_line scans backwards from an error marker
ScanBack == 5

\* one iteration of the loop body of extract_file_line on a line:
\* Some(<<file, num>>) when the line yields a location, None otherwise
ExtractFromLine(line) ==
    LET pos == Find(line, ".tex:")
    IN  IF pos = -1 THEN None
        ELSE LET parts == Split(StrTo(line, pos + 4), ":")
             IN  IF Len(parts) >= 2
                 THEN LET file == TrimStartMatches(parts[1], "./")
                          num  == ParseU32(parts[2])
                      IN  IF num.some THEN Some(<< file, num.val >>) ELSE None
                 ELSE None

\* the loop of extract_file_line: i runs over (0..error_idx).rev().take(5);
\* here i is the 0-based index still to visit and left the iterations left
RECURSIVE ExtractScan(_, _, _)
ExtractScan(lines, i, left) ==
    IF i < 0 \/ left = 0 THEN << None, None >>
    ELSE LET hit == ExtractFromLine(lines[i + 1])
         IN  IF hit.some
             THEN << Some(hit.val[1]), Some(hit.val[2]) >>
             ELSE ExtractScan(lines, i - 1, left - 1)

\* extract_file_line(lines, error_idx): (Option<String>, Option<u32>)
extract_file_line(lines, error_idx) ==
    ExtractScan(lines, error_idx - 1, ScanBack)

\* which branch of the loop body of parse_latex_log a line takes
LogLineClass(line) ==
    IF StartsWith(line, "! ") THEN "error"
    ELSE IF Contains(line, "Warning:") THEN "warning"
    ELSE "skip"

\* the loop of parse_latex_log from 0-based index i on
RECURSIVE ParseLogFrom(_, _, _)
ParseLogFrom(lines, i, acc) ==
    IF i >= Len(lines) THEN acc
    ELSE LET line == lines[i + 1]
             cls  == LogLineClass(line)
         IN  IF cls = "error"
             THEN LET loc == extract_file_line(lines, i)
                      e   == Diagnostic(loc[1], loc[2],
                                        TrimStartMatches(line, "! "))
                  IN  ParseLogFrom(lines, i + 1,
                                   [acc EXCEPT !.errors = Append(@, e)])
             ELSE IF cls = "warning"
             THEN ParseLogFrom(lines, i + 1,
                      [acc EXCEPT !.warnings =
                                     Append(@, Diagnostic(None, None, line))])
             ELSE ParseLogFrom(lines, i + 1, acc)

NoDiagnostics == [errors |-> << >>, warnings |-> << >>]

\* parse_latex_log on the result of read_to_string(log_path): Some(content),
\* or None when the file cannot be read
parse_latex_log(read) ==
    IF ~read.some THEN NoDiagnostics
    ELSE ParseLogFrom(Lines(read.val), 0, NoDiagnostics)

\* the first test of the loop body of parse_tectonic_output
IsErrorLine(line) == Contains(line, "error:") \/ Contains(line, "Error:")

\* its second test
IsWarningLine(line) == Contains(line, "warning:") \/ Contains(line, "Warning:")

\* mutant of OutLineClass: the warning test comes first
OutLineClassWarningFirst(line) ==
    IF IsWarningLine(line) THEN "warning"
    ELSE IF IsErrorLine(line) THEN "error"
    ELSE "skip"

\* which branch of the loop body of parse_tectonic_output a line takes
OutLineClass(line) ==
    IF IsErrorLine(line) THEN "error"
    ELSE IF IsWarningLine(line) THEN "warning"
    ELSE "skip"

RECURSIVE ParseOutFrom(_, _, _)
ParseOutFrom(lines, i, acc) ==
    IF i > Len(lines) THEN acc
    ELSE LET line == lines[i]
             cls  == OutLineClass(line)
         IN  IF cls = "error"
             THEN ParseOutFrom(lines, i + 1,
                      [acc EXCEPT !.errors =
                                     Append(@, Diagnostic(None, None, line))])
             ELSE IF cls = "warning"
             THEN ParseOutFrom(lines, i + 1,
                      [acc EXCEPT !.warnings =
                                     Append(@, Diagnostic(None, None, line))])
             ELSE ParseOutFrom(lines, i + 1, acc)

\* parse_tectonic_output(stdout, stderr)
parse_tectonic_output(stdout, stderr) ==
    LET combined == stdout \o "\n" \o stderr
    IN  ParseOutFrom(Lines(combined), 1, NoDiagnostics)

(***************************************************************************)
(* Filesystem: the paths that exist, each with what it holds.  A path is   *)
(* a string; PathBuf::join of a relative path appends "/" and the path.    *)
(***************************************************************************)
Join(a, b) == a \o "/" \o b

\* str::rfind of a one-character pattern: 0-based offset, -1 for None
RFind(s, c) ==
    LET hits == { i \in 0 .. (Len(s) - 1) : SubSeq(s, i + 1, i + 1) = c }
    IN  IF hits = {} THEN -1
        ELSE CHOOSE i \in hits : \A j \in hits : j <= i

\* offset of the last "/" of a path, -1 when it has none
LastSlash(p) == RFind(p, "/")

\* Path::parent, "" for a path of one component
Parent(p) == IF LastSlash(p) = -1 THEN "" ELSE StrTo(p, LastSlash(p))

\* a path and the directories above it
RECURSIVE Ancestors(_)
Ancestors(p) == IF p = "" THEN {} ELSE {p} \cup Ancestors(Parent(p))

DirEntry == [kind |-> "dir"]

TextFile(text) == [kind |-> "file", text |-> text]

\* a configuration file that serde_yaml parses to cfg
YamlFile(cfg) == [kind |-> "yaml", cfg |-> cfg]

\* Path::exists
Exists(d, p) == p \in DOMAIN d

\* fs::create_dir_all
CreateDirAll(d, p) ==
    [q \in DOMAIN d \cup Ancestors(p) |-> IF q \in DOMAIN d THEN d[q] ELSE DirEntry]

\* fs::write of a file whose directory exists
WriteFile(d, p, entry) ==
    [q \in DOMAIN d \cup {p} |-> IF q = p THEN entry ELSE d[q]]

\* mutant of RemoveAll: the entries below the path go, the path stays
RemoveAllBelow(d, p) ==
    [q \in { r \in DOMAIN d : ~StartsWith(r, p \o "/") } |-> d[q]]

\* fs::remove_dir_all / fs::remove_file: the path and all below it
RemoveAll(d, p) ==
    [q \in { r \in DOMAIN d : r # p /\ ~StartsWith(r, p \o "/") } |-> d[q]]

EmptyDisk == [q \in {} |-> DirEntry]

(***************************************************************************)
(* Project configuration (project.rs)                                      *)
(***************************************************************************)
EngineConfig(engine_type, args) == [engine_type |-> engine_type, args |-> args]

CompileConfig(synctex, shell_escape, outdir, min_interval_ms) ==
    [synctex |-> synctex, shell_escape |-> shell_escape, outdir |-> outdir,
     min_interval_ms |-> min_interval_ms]

ProjectConfig(version, name, main, engine, compile) ==
    [version |-> version, name |-> name, main |-> main, engine |-> engine,
     compile |-> compile]

\* impl Default for ProjectConfig
DefaultConfig ==
    ProjectConfig(1, "My Paper", "main.tex", EngineConfig("tectonic", << >>),
                  CompileConfig(TRUE, FALSE, "out", 600))

ConfigPath(project_dir) == Join(Join(project_dir, ".easypaper"), "project.yml")

Ok(v) == [ok |-> TRUE, val |-> v]

Err(e) == [ok |-> FALSE, err |-> e]

\* mutant of Load: a project without a configuration file is an error
LoadMissingIsError(d, project_dir) ==
    IF ~Exists(d, ConfigPath(project_dir)) THEN Err("Failed to read project config")
    ELSE IF d[ConfigPath(project_dir)].kind = "yaml"
    THEN Ok(d[ConfigPath(project_dir)].cfg)
    ELSE Err("Failed to parse project config")

\* ProjectConfig::load
Load(d, project_dir) ==
    LET config_path == ConfigPath(project_dir)
    IN  IF ~Exists(d, config_path) THEN Ok(DefaultConfig)
        ELSE IF d[config_path].kind = "yaml" THEN Ok(d[config_path].cfg)
        ELSE Err("Failed to parse project config")

\* ProjectConfig::save when the filesystem lets both of its steps succeed
Save(d, config, project_dir) ==
    WriteFile(CreateDirAll(d, Join(project_dir, ".easypaper")),
              ConfigPath(project_dir), YamlFile(config))

(***************************************************************************)
(* ApiResponse<T> (svc_file.rs)                                            *)
(***************************************************************************)
\* the unit value ()
Unit == [unit |-> TRUE]

ApiSuccess(data) == [ok |-> TRUE, data |-> Some(data), error |-> None]

ApiError(msg) == [ok |-> FALSE, data |-> None, error |-> Some(msg)]

(***************************************************************************)
(* Build orchestrator (svc_build.rs)                                       *)
(***************************************************************************)
\* mutant of EngineStrategy: an unrecognized type falls back to tectonic
EngineStrategyFallback(engine_type) ==
    IF engine_type = "latexmk" THEN "latexmk" ELSE "tectonic"

\* the match of build_compile on config.engine.engine_type
EngineStrategy(engine_type) ==
    IF engine_type = "tectonic" THEN "tectonic"
    ELSE IF engine_type = "latexmk" THEN "latexmk"
    ELSE "unknown"

\* the arguments compile_with_tectonic gives the command, in order
TectonicArgs(config) ==
    << "--outdir=" \o config.compile.outdir >>
    \o (IF config.compile.synctex THEN << "--synctex" >> ELSE << >>)
    \o << config.main >>
    \o config.engine.args

\* the arguments compile_with_latexmk gives the command, in order
LatexmkArgs(config) ==
    << "-pdf", "-interaction=nonstopmode" >>
    \o (IF config.compile.synctex THEN << "-synctex=1" >> ELSE << >>)
    \o (IF config.compile.shell_escape THEN << "-shell-escape" >> ELSE << >>)
    \o << "-outdir=" \o config.compile.outdir >>
    \o << config.main >>

\* std::process::Command as built by the strategy
EngineCommand(strategy, project_dir, config) ==
    [program     |-> strategy,
     current_dir |-> project_dir,
     args        |-> IF strategy = "tectonic" THEN TectonicArgs(config)
                     ELSE LatexmkArgs(config)]

\* out_dir of both strategies
OutDir(project_dir, config) == Join(project_dir, config.compile.outdir)

\* mutant of PdfName: the entry file's name is kept as it is
PdfNameVerbatim(config) == config.main

\* pdf_name
PdfName(config) == Replace(config.main, ".tex", ".pdf")

\* log_name of compile_with_latexmk
LogName(config) == Replace(config.main, ".tex", ".log")

\* pdf_path
PdfPath(project_dir, config) == Join(OutDir(project_dir, config), PdfName(config))

\* log_path
LogPath(project_dir, config) == Join(OutDir(project_dir, config), LogName(config))

\* mutant of BuildSuccess: a run that printed an error line is no success
BuildSuccessNoErrors(output, pdf_exists) ==
    /\ output.exit_ok
    /\ pdf_exists
    /\ parse_tectonic_output(output.stdout, output.stderr).errors = << >>

\* mutant of BuildSuccess: the exit status is not looked at
BuildSuccessPdfOnly(output, pdf_exists) == pdf_exists

\* success, from the subprocess output and pdf_path.exists()
BuildSuccess(output, pdf_exists) == output.exit_ok /\ pdf_exists

\* the diagnostics of a run: tectonic's from its output, latexmk's from the
\* log file when log_path.exists()
BuildDiagnostics(strategy, output, d, log_path) ==
    IF strategy = "tectonic"
    THEN parse_tectonic_output(output.stdout, output.stderr)
    ELSE IF Exists(d, log_path) /\ d[log_path].kind = "file"
         THEN parse_latex_log(Some(d[log_path].text))
         ELSE IF Exists(d, log_path) THEN parse_latex_log(None)
         ELSE NoDiagnostics

\* BuildResult; duration_ms, a wall-clock reading, is left out
BuildResult(success, pdf_path, log_path, errors, warnings) ==
    [success |-> success, pdf_path |-> pdf_path, log_path |-> log_path,
     errors |-> errors, warnings |-> warnings]

(***************************************************************************)
(* The engines, as the orchestrator sees them: a run may fail to launch;   *)
(* a launched run exits with some status, prints some text and may leave   *)
(* <outdir>/<stem>.pdf (and latexmk <outdir>/<stem>.log), <stem> being the *)
(* entry file's name without its directory and its last extension.         *)
(***************************************************************************)
\* Path::file_name of a relative path
FileName(p) == StrFrom(p, LastSlash(p) + 1)

\* offset of the last "." of a name, -1 when it has none
LastDot(n) == RFind(n, ".")

\* the entry file's stem: its file name up to the last "."
FileStem(p) ==
    LET n == FileName(p)
    IN  IF LastDot(n) <= 0 THEN n ELSE StrTo(n, LastDot(n))

EnginePdfPath(project_dir, config) ==
    Join(OutDir(project_dir, config), FileStem(config.main) \o ".pdf")

EngineLogPath(project_dir, config) ==
    Join(OutDir(project_dir, config), FileStem(config.main) \o ".log")

\* what a run prints on stdout and stderr
EngineOutputs ==
    { << "", "" >>,
      << "", "error: halted on potentially-recoverable error\n" >>,
      << "warning: Overfull hbox\n", "" >>,
      << "note: Running TeX on main.tex\n", "" >> }

\* what latexmk leaves in the log file; None: no log file written
EngineLogs ==
    { None,
      Some("This is pdfTeX\nOutput written on main.pdf\n"),
      Some("./main.tex:3\n! Undefined control sequence.\nLaTeX Warning: x\n") }

EngineRuns(strategy) ==
    [launched : {TRUE}, exit_ok : BOOLEAN, wrote_pdf : BOOLEAN,
     output : IF strategy = "tectonic" THEN EngineOutputs ELSE { << "", "" >> },
     log : IF strategy = "tectonic" THEN {None} ELSE EngineLogs]
    \cup
    [launched : {FALSE}, exit_ok : {FALSE}, wrote_pdf : {FALSE},
     output : { << "", "" >> }, log : {None}]

\* the disk after a run; a run that finds no output directory writes nothing
EngineEffect(d, run, project_dir, config) ==
    LET d1 == IF run.wrote_pdf
              THEN WriteFile(d, EnginePdfPath(project_dir, config), TextFile("%PDF"))
              ELSE d
    IN  IF ~Exists(d, OutDir(project_dir, config)) THEN d
        ELSE IF run.log.some
        THEN WriteFile(d1, EngineLogPath(project_dir, config), TextFile(run.log.val))
        ELSE d1

(***************************************************************************)
(* Template catalog and scaffolder (svc_template.rs)                       *)
(***************************************************************************)
\* the ids of template_list
TemplateIds == {"article", "ieeetran", "acmart"}

\* the match of template_apply on template_id: Some(body) or None; a body
\* is named by its constant, its text being static
TemplateBody(template_id) ==
    IF template_id = "article" THEN Some("ARTICLE_TEMPLATE")
    ELSE IF template_id = "ieeetran" THEN Some("IEEE_TEMPLATE")
    ELSE IF template_id = "acmart" THEN Some("ACM_TEMPLATE")
    ELSE None

\* the filesystem steps of template_apply, in the order of the code
ScaffoldSteps ==
    << "project_dir", "main.tex", "refs.bib", "figures", "sections",
       ".easypaper", "config", "out", ".gitignore" >>

\* the disk after one step of template_apply
ScaffoldStep(d, step, project_dir, body, project_name) ==
    CASE step = "project_dir" -> CreateDirAll(d, project_dir)
      [] step = "main.tex"    -> WriteFile(d, Join(project_dir, "main.tex"), TextFile(body))
      [] step = "refs.bib"    -> WriteFile(d, Join(project_dir, "refs.bib"), TextFile("BIB_TEMPLATE"))
      [] step = "figures"     -> CreateDirAll(d, Join(project_dir, "figures"))
      [] step = "sections"    -> CreateDirAll(d, Join(project_dir, "sections"))
      [] step = ".easypaper"  -> CreateDirAll(d, Join(project_dir, ".easypaper"))
      [] step = "config"      -> Save(d, [DefaultConfig EXCEPT !.version = 1,
                                                               !.name = project_name,
                                                               !.main = "main.tex"],
                                      project_dir)
      [] step = "out"         -> CreateDirAll(d, Join(project_dir, "out"))
      [] step = ".gitignore"  -> WriteFile(d, Join(project_dir, ".gitignore"), TextFile("GITIGNORE"))

\* the disk after steps from..to of template_apply
RECURSIVE ScaffoldRun(_, _, _, _, _, _)
ScaffoldRun(d, from, to, project_dir, body, project_name) ==
    IF from > to THEN d
    ELSE ScaffoldRun(ScaffoldStep(d, ScaffoldSteps[from], project_dir, body, project_name),
                     from + 1, to, project_dir, body, project_name)

\* mutant of TemplateApply: a failing step undoes the steps before it
TemplateApplyRollback(d, project_dir, template_id, project_name, fail) ==
    IF fail = 0 /\ TemplateBody(template_id).some
    THEN [disk |-> ScaffoldRun(d, 1, Len(ScaffoldSteps), project_dir,
                               TemplateBody(template_id).val, project_name),
          resp |-> ApiSuccess(Unit)]
    ELSE [disk |-> d, resp |-> ApiError("Failed")]

\* template_apply: the disk and the response.  fail is the number of the
\* step at which the filesystem returns an error, 0 when every step succeeds
TemplateApply(d, project_dir, template_id, project_name, fail) ==
    IF fail = 1
    THEN [disk |-> d, resp |-> ApiError("Failed to create project directory")]
    ELSE LET d1   == ScaffoldStep(d, ScaffoldSteps[1], project_dir, "", project_name)
             body == TemplateBody(template_id)
         IN  IF ~body.some
             THEN [disk |-> d1, resp |-> ApiError("Unknown template: " \o template_id)]
             ELSE IF fail = 0
             THEN [disk |-> ScaffoldRun(d1, 2, Len(ScaffoldSteps), project_dir,
                                        body.val, project_name),
                   resp |-> ApiSuccess(Unit)]
             ELSE [disk |-> ScaffoldRun(d1, 2, fail - 1, project_dir,
                                        body.val, project_name),
                   resp |-> ApiError("Failed at " \o ScaffoldSteps[fail])]

(***************************************************************************)
(* SyncTeX bridge (svc_synctex.rs).  An f64 is held as its decimal         *)
(* expansion: sign, whole part and fraction digits without trailing zeros. *)
(***************************************************************************)
\* Display of a natural number
RECURSIVE NatToStr(_)
NatToStr(n) ==
    IF n < 10 THEN Digits[n + 1]
    ELSE NatToStr(n \div 10) \o Digits[(n % 10) + 1]

\* Display of an i32, as format!("{}", ..) prints it
IntToStr(n) == IF n < 0 THEN "-" \o NatToStr(-n) ELSE NatToStr(n)

F64(neg, whole, frac) == [neg |-> neg, whole |-> whole, frac |-> frac]

\* Display of an f64
FormatF64(v) ==
    (IF v.neg THEN "-" ELSE "") \o NatToStr(v.whole)
    \o (IF v.frac = "" THEN "" ELSE "." \o v.frac)

\* str::parse::<i32>: an optional sign, then one or more digits, within the
\* range of i32; None stands for Err
ParseI32(s) ==
    LET neg  == StartsWith(s, "-")
        body == IF neg \/ StartsWith(s, "+") THEN StrFrom(s, 1) ELSE s
        sig  == TrimStartMatches(body, "0")
        max  == IF neg THEN "2147483648" ELSE "2147483647"
    IN  IF body = "" \/ ~AllDigits(body) THEN None
        ELSE IF Len(sig) > 10 \/ (Len(sig) = 10 /\ ~DigitsLeq(sig, max))
             THEN None
             ELSE Some(IF neg THEN 0 - DecimalValue(sig) ELSE DecimalValue(sig))

Whitespace == {" ", "\t", "\r", "\n"}

RECURSIVE TrimStart(_)
TrimStart(s) ==
    IF s # "" /\ SubSeq(s, 1, 1) \in Whitespace THEN TrimStart(StrFrom(s, 1)) ELSE s

RECURSIVE TrimEnd(_)
TrimEnd(s) ==
    IF s # "" /\ SubSeq(s, Len(s), Len(s)) \in Whitespace
    THEN TrimEnd(StrTo(s, Len(s) - 1)) ELSE s

\* str::trim
Trim(s) == TrimEnd(TrimStart(s))

\* str::trim_end_matches of a one-character pattern
RECURSIVE TrimEndMatches(_, _)
TrimEndMatches(s, c) ==
    IF s # "" /\ SubSeq(s, Len(s), Len(s)) = c
    THEN TrimEndMatches(StrTo(s, Len(s) - 1), c) ELSE s

\* str::parse::<f64> of a decimal literal: an optional sign, digits, and
\* optionally "." and digits, with a digit on at least one side; None stands
\* for Err.  Literals with an exponent, "inf" and "nan" are not covered.
ParseF64(s) ==
    LET neg   == StartsWith(s, "-")
        body  == IF neg \/ StartsWith(s, "+") THEN StrFrom(s, 1) ELSE s
        dot   == Find(body, ".")
        whole == IF dot = -1 THEN body ELSE StrTo(body, dot)
        frac  == IF dot = -1 THEN "" ELSE StrFrom(body, dot + 1)
    IN  IF (whole = "" /\ frac = "") \/ ~AllDigits(whole) \/ ~AllDigits(frac)
        THEN None
        ELSE Some(F64(neg, DecimalValue(whole), TrimEndMatches(frac, "0")))

\* str::strip_prefix
StripPrefix(s, p) == IF StartsWith(s, p) THEN Some(StrFrom(s, Len(p))) ELSE None

\* synctex_paths
SynctexPaths ==
    << "synctex",
       "/opt/homebrew/bin/synctex",
       "/usr/local/bin/synctex",
       "/Library/TeX/texbin/synctex",
       "/usr/local/texlive/2025/bin/universal-darwin/synctex",
       "/usr/local/texlive/2024/bin/universal-darwin/synctex",
       "/usr/local/texlive/2023/bin/universal-darwin/synctex" >>

\* the loop over synctex_paths from entry i: synctex_cmd
RECURSIVE SynctexCmdFrom(_, _)
SynctexCmdFrom(d, i) ==
    IF i > Len(SynctexPaths) THEN None
    ELSE IF Exists(d, SynctexPaths[i]) \/ SynctexPaths[i] = "synctex"
         THEN Some(SynctexPaths[i])
         ELSE SynctexCmdFrom(d, i + 1)

SynctexCmd(d) == SynctexCmdFrom(d, 1)

\* the directories the system searches for a bare command name
SearchPath == {"/usr/bin"}

\* whether the system can launch a program given by name or by path
Launchable(d, program) ==
    IF Find(program, "/") = -1
    THEN \E dir \in SearchPath : Exists(d, Join(dir, program))
    ELSE Exists(d, program)

SyncTexResult(file, line, column) == [file |-> file, line |-> line, column |-> column]

SyncTexPdfPos(page, x, y) == [page |-> page, x |-> x, y |-> y]

\* the loop of synctex_forward over stdout.lines() from line i
RECURSIVE ForwardParseFrom(_, _, _)
ForwardParseFrom(lines, i, acc) ==
    IF i > Len(lines) THEN acc
    ELSE LET line_str == lines[i]
             l == ParseI32(TrimStartMatches(line_str, "Line:"))
             c == ParseI32(TrimStartMatches(line_str, "Column:"))
             next ==
                 IF StartsWith(line_str, "Output:")
                 THEN [acc EXCEPT !.file = TrimStartMatches(line_str, "Output:")]
                 ELSE IF StartsWith(line_str, "Line:")
                 THEN (IF l.some THEN [acc EXCEPT !.line = l.val] ELSE acc)
                 ELSE IF StartsWith(line_str, "Column:")
                 THEN (IF c.some THEN [acc EXCEPT !.column = c.val] ELSE acc)
                 ELSE acc
         IN  ForwardParseFrom(lines, i + 1, next)

\* the loop of synctex_backward over stdout.lines() from line i
RECURSIVE BackwardParseFrom(_, _, _)
BackwardParseFrom(lines, i, acc) ==
    IF i > Len(lines) THEN acc
    ELSE LET line == lines[i]
             p  == StripPrefix(line, "Page:")
             vx == StripPrefix(line, "x:")
             vy == StripPrefix(line, "y:")
             next ==
                 IF p.some
                 THEN (IF ParseI32(Trim(p.val)).some
                       THEN [acc EXCEPT !.page = ParseI32(Trim(p.val)).val] ELSE acc)
                 ELSE IF vx.some
                 THEN (IF ParseF64(Trim(vx.val)).some
                       THEN [acc EXCEPT !.x = ParseF64(Trim(vx.val)).val] ELSE acc)
                 ELSE IF vy.some
                 THEN (IF ParseF64(Trim(vy.val)).some
                       THEN [acc EXCEPT !.y = ParseF64(Trim(vy.val)).val] ELSE acc)
                 ELSE acc
         IN  BackwardParseFrom(lines, i + 1, next)

\* what the subprocess of a query does: it is not launched, or it exits
\* with some status having printed some text
SynctexOutputs ==
    { "",
      "SyncTeX result begin\nOutput:proj/main.tex\nLine:12\nColumn:-1\nSyncTeX result end\n",
      "SyncTeX result begin\nLine:x\nSyncTeX result end\n",
      "SyncTeX result begin\nPage:2\nx:72.270\ny: 100.5\nSyncTeX result end\n",
      "Page:two\nx:abc\n" }

SynctexRuns ==
    [launched : {TRUE}, exit_ok : BOOLEAN, stdout : SynctexOutputs,
     stderr : {"", "SyncTeX ERROR: No file?\n"}]
    \cup
    [launched : {FALSE}, exit_ok : {FALSE}, stdout : {""}, stderr : {""}]

\* a query from the resolved command on: the command, the subprocess output
\* and the response.  view is the arguments after "view"; parsed is the
\* response made of stdout once the subprocess has exited with success.
SynctexQuery(synctex_cmd, view, run, parsed) ==
    IF ~synctex_cmd.some
    THEN [cmd  |-> None, proc |-> None,
          resp |-> ApiError("SyncTeX not installed. Please install MacTeX or TeX Live.")]
    ELSE LET command == [program |-> synctex_cmd.val, args |-> << "view" >> \o view]
         IN  IF ~run.launched
             THEN [cmd  |-> Some(command), proc |-> None,
                   resp |-> ApiError("Failed to run synctex: "
                                     \o "No such file or directory (os error 2)")]
             ELSE IF ~run.exit_ok
             THEN [cmd  |-> Some(command), proc |-> Some(run),
                   resp |-> ApiError("Synctex command failed: " \o run.stderr)]
             ELSE [cmd  |-> Some(command), proc |-> Some(run), resp |-> parsed]

\* synctex_forward
SynctexForward(d, pdf_path, page, x, y, run) ==
    LET query  == IntToStr(page) \o ":" \o FormatF64(x) \o ":" \o FormatF64(y)
                  \o ":" \o pdf_path
        found  == ForwardParseFrom(Lines(run.stdout), 1, SyncTexResult("", 0, 0))
    IN  SynctexQuery(SynctexCmd(d), << "-i", query >>, run,
                     IF found.file = ""
                     THEN ApiError("Could not find source location")
                     ELSE ApiSuccess(found))

\* synctex_backward
SynctexBackward(d, source_path, line, column, pdf_path, run) ==
    LET input == IntToStr(line) \o ":" \o IntToStr(column) \o ":" \o source_path
        zero  == F64(FALSE, 0, "")
        found == BackwardParseFrom(Lines(run.stdout), 1, SyncTexPdfPos(1, zero, zero))
    IN  SynctexQuery(SynctexCmd(d), << "-i", input, "-o", pdf_path >>, run,
                     ApiSuccess(found))

(***************************************************************************)
(* State                                                                   *)
(***************************************************************************)
VARIABLES
    disk,        \* the filesystem: path -> entry
    pc,          \* where the build_compile call in progress stands, or "idle"
    cfg,         \* build_compile's config, Some(..) once loaded
    cmd,         \* build_compile's cmd, Some(..) once handed to the system
    proc,        \* build_compile's output, Some(..) once the subprocess ended
    build,       \* build_compile's success and diagnostics, Some(..) once known
    resp,        \* the response of the operation that returned last
    last,        \* the operation step taken last
    logLines,    \* extractor inputs: the lines of a log file
    logParsed,   \* Some(parse_latex_log of that file)
    outLines,    \* << lines of stdout, lines of stderr >>
    outParsed    \* Some(parse_tectonic_output of them)

fsVars == << disk, pc, cfg, cmd, proc, build, resp, last >>

logVars == << logLines, logParsed >>

outVars == << outLines, outParsed >>

vars == << disk, pc, cfg, cmd, proc, build, resp, last,
           logLines, logParsed, outLines, outParsed >>

\* the one project directory of the model
ProjectDir == "proj"

FsInit ==
    /\ disk = EmptyDisk
    /\ pc = "idle"
    /\ cfg = None
    /\ cmd = None
    /\ proc = None
    /\ build = None
    /\ resp = None
    /\ last = "init"

LogInit == logLines = << >> /\ logParsed = None

OutInit == outLines = << << >>, << >> >> /\ outParsed = None

(***************************************************************************)
(* Inputs of the operations                                                *)
(***************************************************************************)
\* template ids a caller passes: the catalog's and one outside it
TemplateIdInputs == TemplateIds \cup {"beamer"}

EngineTypes == {"tectonic", "latexmk", "xelatex"}

ArgWords == {"--keep-logs", "-Zmin"}

ArgLists == UNION { [1 .. n -> ArgWords] : n \in 0 .. MaxArgs }

MainNames == {"main.tex", "a.tex.tex", "main.ltx", "main", "s/main.tex"}

\* DefaultConfig with another engine
WithEngine(engine_type, args) ==
    [DefaultConfig EXCEPT !.engine = EngineConfig(engine_type, args)]

\* what a caller writes to project.yml: a configuration, or text that is
\* no configuration
ConfigFileInputs ==
    { YamlFile(WithEngine("latexmk", << >>)),
      YamlFile(WithEngine("xelatex", << >>)),
      TextFile("engine: [") }

\* the configurations of the projects compiled under SpecEngines
ConfigInputs ==
    { ProjectConfig(1, "My Paper", "main.tex", EngineConfig(t, a),
                    CompileConfig(sx, se, "out", 600)) :
          t \in EngineTypes \ {"xelatex"}, a \in ArgLists,
          sx \in BOOLEAN, se \in BOOLEAN }
    \cup
    { [WithEngine(t, << >>) EXCEPT !.main = m] :
          t \in EngineTypes, m \in MainNames }

(***************************************************************************)
(* Operations.  A call of build_compile runs in four steps, one before and *)
(* three after the subprocess; every other operation is one step.  Calls   *)
(* do not overlap.  The locals of a build_compile call (cfg, cmd, proc,    *)
(* build) stay readable in the state it returns in and are gone when the   *)
(* next operation starts.                                                  *)
(***************************************************************************)
DropLocals ==
    /\ cfg' = None
    /\ cmd' = None
    /\ proc' = None
    /\ build' = None

\* template_apply(project_dir, template_id, project_name)
template_apply(template_id, project_name, fail) ==
    /\ pc = "idle"
    /\ LET r == TemplateApply(disk, ProjectDir, template_id, project_name, fail)
       IN  /\ disk' = r.disk
           /\ resp' = r.resp
    /\ last' = "template_apply"
    /\ DropLocals
    /\ UNCHANGED << pc, logVars, outVars >>

\* the body of file_write(path, content, create)
FileWriteCall(path, entry, create) ==
    /\ last' = "file_write"
    /\ IF ~create /\ ~Exists(disk, path)
       THEN /\ resp' = ApiError("File does not exist")
            /\ disk' = disk
       ELSE /\ resp' = ApiSuccess(Unit)
            /\ disk' = WriteFile(CreateDirAll(disk, Parent(path)), path, entry)

\* file_write(path, content, create)
file_write(path, entry, create) ==
    /\ pc = "idle"
    /\ FileWriteCall(path, entry, create)
    /\ DropLocals
    /\ UNCHANGED << pc, logVars, outVars >>

\* what a remove_dir_all of p that returns an error can leave: p and any of
\* the entries below it, each with its directory
RemoveLeftovers(d, p) ==
    { kept \in SUBSET { q \in DOMAIN d : StartsWith(q, p \o "/") } :
          \A q \in kept : Parent(q) = p \/ Parent(q) \in kept }

\* the disk after a remove_dir_all of p that stopped with kept left
RemoveFailed(d, p, kept) ==
    [q \in { r \in DOMAIN d : ~StartsWith(r, p \o "/") \/ r \in kept } |-> d[q]]

\* the body of file_delete(path); the removal succeeds when rm_ok
FileDeleteCall(path, rm_ok) ==
    /\ last' = "file_delete"
    /\ IF Exists(disk, path) /\ rm_ok
       THEN /\ resp' = ApiSuccess(Unit)
            /\ disk' = RemoveAll(disk, path)
       ELSE /\ resp' = ApiError("Failed to delete")
            /\ IF Exists(disk, path) /\ disk[path].kind = "dir"
               THEN \E kept \in RemoveLeftovers(disk, path) :
                        disk' = RemoveFailed(disk, path, kept)
               ELSE disk' = disk

\* the body of build_clean(project_dir); remove_dir_all succeeds when rm_ok
BuildCleanCall(rm_ok) ==
    /\ last' = "build_clean"
    /\ LET loaded == Load(disk, ProjectDir)
       IN  IF ~loaded.ok
           THEN /\ resp' = ApiError("Failed to load project config: " \o loaded.err)
                /\ disk' = disk
           ELSE LET out_dir == OutDir(ProjectDir, loaded.val)
                IN  IF ~Exists(disk, out_dir)
                    THEN /\ resp' = ApiSuccess(Unit)
                         /\ disk' = disk
                    ELSE IF rm_ok
                    THEN /\ resp' = ApiSuccess(Unit)
                         /\ disk' = RemoveAll(disk, out_dir)
                    ELSE /\ resp' = ApiError("Failed to clean output directory")
                         /\ \E kept \in RemoveLeftovers(disk, out_dir) :
                                disk' = RemoveFailed(disk, out_dir, kept)

\* build_clean(project_dir)
build_clean(rm_ok) ==
    /\ pc = "idle"
    /\ BuildCleanCall(rm_ok)
    /\ DropLocals
    /\ UNCHANGED << pc, logVars, outVars >>

\* The same operations called by another caller while a build_compile call
\* is in progress: each runs whole between two steps of that call and
\* leaves its locals alone.
concurrent_clean(rm_ok) ==
    /\ pc # "idle"
    /\ BuildCleanCall(rm_ok)
    /\ UNCHANGED << pc, cfg, cmd, proc, build, logVars, outVars >>

concurrent_delete(path, rm_ok) ==
    /\ pc # "idle"
    /\ FileDeleteCall(path, rm_ok)
    /\ UNCHANGED << pc, cfg, cmd, proc, build, logVars, outVars >>

concurrent_write(path, entry, create) ==
    /\ pc # "idle"
    /\ FileWriteCall(path, entry, create)
    /\ UNCHANGED << pc, cfg, cmd, proc, build, logVars, outVars >>

\* build_compile(project_dir) up to the subprocess: load, dispatch and the
\* strategy's create_dir_all, which succeeds when mkdir_ok
build_compile(mkdir_ok) ==
    /\ pc = "idle"
    /\ last' = "build_compile"
    /\ LET loaded == Load(disk, ProjectDir)
       IN  IF ~loaded.ok
           THEN /\ resp' = ApiError("Failed to load project config: " \o loaded.err)
                /\ cfg' = None
                /\ UNCHANGED << disk, pc >>
           ELSE IF EngineStrategy(loaded.val.engine.engine_type) = "unknown"
           THEN /\ resp' = ApiError("Unknown engine type: "
                                    \o loaded.val.engine.engine_type)
                /\ cfg' = Some(loaded.val)
                /\ UNCHANGED << disk, pc >>
           ELSE IF ~mkdir_ok
           THEN /\ resp' = ApiError("Failed to create output directory")
                /\ cfg' = Some(loaded.val)
                /\ UNCHANGED << disk, pc >>
           ELSE /\ disk' = CreateDirAll(disk, OutDir(ProjectDir, loaded.val))
                /\ cfg' = Some(loaded.val)
                /\ pc' = "spawn"
                /\ resp' = None
    /\ cmd' = None
    /\ proc' = None
    /\ build' = None
    /\ UNCHANGED << logVars, outVars >>

\* cmd.output(): the subprocess is launched and runs to its end
engine_run(run) ==
    /\ pc = "spawn"
    /\ run \in EngineRuns(EngineStrategy(cfg.val.engine.engine_type))
    /\ last' = "engine_run"
    /\ cmd' = Some(EngineCommand(EngineStrategy(cfg.val.engine.engine_type),
                                 ProjectDir, cfg.val))
    /\ IF ~run.launched
       THEN /\ resp' = ApiError("Failed to execute "
                                \o EngineStrategy(cfg.val.engine.engine_type))
            /\ pc' = "idle"
            /\ UNCHANGED << disk, proc >>
       ELSE /\ disk' = EngineEffect(disk, run, ProjectDir, cfg.val)
            /\ proc' = Some([exit_ok |-> run.exit_ok, stdout |-> run.output[1],
                             stderr |-> run.output[2],
                             stale_pdf |-> Exists(disk, PdfPath(ProjectDir, cfg.val))
                                           /\ ~(run.wrote_pdf
                                                /\ EnginePdfPath(ProjectDir, cfg.val)
                                                   = PdfPath(ProjectDir, cfg.val))])
            /\ pc' = "verify"
            /\ resp' = resp
    /\ UNCHANGED << cfg, build, logVars, outVars >>

\* diagnostics, then success: lines 91-100 and 146-161
verify_pdf ==
    /\ pc = "verify"
    /\ last' = "verify_pdf"
    /\ LET pdf_path == PdfPath(ProjectDir, cfg.val)
           diags    == BuildDiagnostics(EngineStrategy(cfg.val.engine.engine_type),
                                        proc.val, disk, LogPath(ProjectDir, cfg.val))
       IN  build' = Some([success  |-> BuildSuccess(proc.val, Exists(disk, pdf_path)),
                          checked  |-> pdf_path,
                          errors   |-> diags.errors,
                          warnings |-> diags.warnings])
    /\ pc' = "assemble"
    /\ UNCHANGED << disk, cfg, cmd, proc, resp, logVars, outVars >>

\* Ok(BuildResult {..}) and the return of build_compile: lines 102-113 and
\* 163-178, then 48-54
assemble_result ==
    /\ pc = "assemble"
    /\ last' = "assemble_result"
    /\ LET pdf_path == PdfPath(ProjectDir, cfg.val)
           log_path == LogPath(ProjectDir, cfg.val)
           strategy == EngineStrategy(cfg.val.engine.engine_type)
       IN  resp' = ApiSuccess(BuildResult(
                       build.val.success,
                       IF Exists(disk, pdf_path) THEN Some(pdf_path) ELSE None,
                       IF strategy = "latexmk" /\ Exists(disk, log_path)
                       THEN Some(log_path) ELSE None,
                       build.val.errors,
                       build.val.warnings))
    /\ pc' = "idle"
    /\ UNCHANGED << disk, cfg, cmd, proc, build, logVars, outVars >>

\* synctex_forward(pdf_path, page, x, y); run is what the subprocess does
synctex_forward(pdf_path, page, x, y, run) ==
    /\ pc = "idle"
    /\ SynctexCmd(disk).some => run.launched = Launchable(disk, SynctexCmd(disk).val)
    /\ last' = "synctex_forward"
    /\ LET r == SynctexForward(disk, pdf_path, page, x, y, run)
       IN  /\ cmd' = r.cmd
           /\ proc' = r.proc
           /\ resp' = r.resp
    /\ cfg' = None
    /\ build' = None
    /\ UNCHANGED << disk, pc, logVars, outVars >>

\* synctex_backward(source_path, line, column, pdf_path)
synctex_backward(source_path, line, column, pdf_path, run) ==
    /\ pc = "idle"
    /\ SynctexCmd(disk).some => run.launched = Launchable(disk, SynctexCmd(disk).val)
    /\ last' = "synctex_backward"
    /\ LET r == SynctexBackward(disk, source_path, line, column, pdf_path, run)
       IN  /\ cmd' = r.cmd
           /\ proc' = r.proc
           /\ resp' = r.resp
    /\ cfg' = None
    /\ build' = None
    /\ UNCHANGED << disk, pc, logVars, outVars >>

(***************************************************************************)
(* Spec: one project directory, from an empty disk, under every operation. *)
(***************************************************************************)
Next ==
    \/ \E t \in TemplateIdInputs, f \in {0, 1} : template_apply(t, "My Paper", f)
    \/ \E e \in ConfigFileInputs, c \in BOOLEAN :
           file_write(ConfigPath(ProjectDir), e, c)
    \/ \E rm_ok \in BOOLEAN : build_clean(rm_ok)
    \/ \E ok \in BOOLEAN : build_compile(ok)
    \/ \E run \in EngineRuns("tectonic") \cup EngineRuns("latexmk") : engine_run(run)
    \/ verify_pdf
    \/ assemble_result

Init == FsInit /\ LogInit /\ OutInit

Spec == Init /\ [][Next]_vars

(***************************************************************************)
(* SpecEngines: projects with every configuration of ConfigInputs, under   *)
(* build_compile and build_clean.                                          *)
(***************************************************************************)
\* a project directory holding only its configuration file
ProjectWith(config) == Save(CreateDirAll(EmptyDisk, ProjectDir), config, ProjectDir)

InitEngines ==
    /\ disk \in { ProjectWith(c) : c \in ConfigInputs }
    /\ pc = "idle"
    /\ cfg = None
    /\ cmd = None
    /\ proc = None
    /\ build = None
    /\ resp = None
    /\ last = "init"
    /\ LogInit
    /\ OutInit

NextEngines ==
    \/ \E rm_ok \in BOOLEAN : build_clean(rm_ok)
    \/ \E ok \in BOOLEAN : build_compile(ok)
    \/ \E run \in EngineRuns("tectonic") \cup EngineRuns("latexmk") : engine_run(run)
    \/ verify_pdf
    \/ assemble_result

SpecEngines == InitEngines /\ [][NextEngines]_vars

(***************************************************************************)
(* SpecScaffold: template_apply with a failure at any of its steps, over   *)
(* what earlier calls, build_clean and file_write have left on disk.       *)
(***************************************************************************)
NextScaffold ==
    \/ \E t \in TemplateIdInputs, f \in 0 .. Len(ScaffoldSteps) :
           template_apply(t, "Thesis", f)
    \/ \E e \in ConfigFileInputs, c \in BOOLEAN :
           file_write(ConfigPath(ProjectDir), e, c)
    \/ \E rm_ok \in BOOLEAN : build_clean(rm_ok)

SpecScaffold == Init /\ [][NextScaffold]_vars

(***************************************************************************)
(* SpecSyncTex: the two queries on machines with any of the known SyncTeX  *)
(* locations installed, and with or without synctex on the search path.    *)
(***************************************************************************)
\* where a machine may have a synctex binary
SynctexLocations ==
    { SynctexPaths[i] : i \in 2 .. Len(SynctexPaths) }
    \cup { Join(dir, "synctex") : dir \in SearchPath }

\* a disk with the binaries of installed and the directories they are in
MachineWith(installed) ==
    [q \in UNION { Ancestors(p) : p \in installed } |->
        IF q \in installed THEN TextFile("synctex") ELSE DirEntry]

InitSyncTex ==
    /\ disk \in { MachineWith(installed) : installed \in SUBSET SynctexLocations }
    /\ pc = "idle"
    /\ cfg = None
    /\ cmd = None
    /\ proc = None
    /\ build = None
    /\ resp = None
    /\ last = "init"
    /\ LogInit
    /\ OutInit

NextSyncTex ==
    \/ \E run \in SynctexRuns :
           synctex_forward("proj/out/main.pdf", 1, F64(FALSE, 72, "5"), F64(FALSE, 100, ""), run)
    \/ \E run \in SynctexRuns :
           synctex_backward("proj/main.tex", 12, 0, "proj/out/main.pdf", run)

SpecSyncTex == InitSyncTex /\ [][NextSyncTex]_vars

(***************************************************************************)
(* SpecConcurrent: build_compile of a project without configuration file,  *)
(* with build_clean, file_delete and file_write calls of another caller    *)
(* falling between its steps.                                              *)
(***************************************************************************)
NextConcurrent ==
    \/ \E ok \in BOOLEAN : build_compile(ok)
    \/ \E run \in EngineRuns("tectonic") : engine_run(run)
    \/ verify_pdf
    \/ assemble_result
    \/ \E rm_ok \in BOOLEAN : concurrent_clean(rm_ok)
    \/ \E rm_ok \in BOOLEAN : concurrent_delete(PdfPath(ProjectDir, DefaultConfig), rm_ok)
    \/ \E c \in BOOLEAN :
           concurrent_write(PdfPath(ProjectDir, DefaultConfig), TextFile("%PDF"), c)

SpecConcurrent == Init /\ [][NextConcurrent]_vars

(***************************************************************************)
(* SpecLog: parse_latex_log applied to log files of up to MaxLogLines      *)
(* lines, at most MaxMarked of them not blank.                             *)
(***************************************************************************)
LogLineInputs ==
    { "",
      "./ch1.tex:42",
      "! Undefined control sequence.",
      "LaTeX Warning: Citation undefined",
      "refs.bib:7: see ch1.tex: entry" }

\* the text of a file of these lines, each ended by a line feed
RECURSIVE JoinLines(_)
JoinLines(lines) ==
    IF lines = << >> THEN ""
    ELSE Head(lines) \o "\n" \o JoinLines(Tail(lines))

Marked(lines) == Cardinality({ i \in 1 .. Len(lines) : lines[i] # "" })

AppendLogLine(l) ==
    /\ ~logParsed.some
    /\ Len(logLines) < MaxLogLines
    /\ l # "" => Marked(logLines) < MaxMarked
    /\ logLines' = Append(logLines, l)
    /\ UNCHANGED << logParsed, fsVars, outVars >>

ParseLog ==
    /\ ~logParsed.some
    /\ logParsed' = Some(parse_latex_log(Some(JoinLines(logLines))))
    /\ UNCHANGED << logLines, fsVars, outVars >>

NextLog ==
    \/ \E l \in LogLineInputs : AppendLogLine(l)
    \/ ParseLog

SpecLog == Init /\ [][NextLog]_vars

(***************************************************************************)
(* SpecDirect: parse_tectonic_output applied to a stdout and a stderr of   *)
(* up to MaxOutLines lines together.                                       *)
(***************************************************************************)
OutLineInputs ==
    { "error: halted",
      "Error: bad input",
      "ERROR: fatal",
      "warning: Overfull hbox",
      "Warning: font",
      "WARNING: slow",
      "error: treated warning: as error",
      "note: Running TeX" }

EmitStdout(l) ==
    /\ ~outParsed.some
    /\ Len(outLines[1]) + Len(outLines[2]) < MaxOutLines
    /\ outLines' = << Append(outLines[1], l), outLines[2] >>
    /\ UNCHANGED << outParsed, fsVars, logVars >>

EmitStderr(l) ==
    /\ ~outParsed.some
    /\ Len(outLines[1]) + Len(outLines[2]) < MaxOutLines
    /\ outLines' = << outLines[1], Append(outLines[2], l) >>
    /\ UNCHANGED << outParsed, fsVars, logVars >>

ParseOutput ==
    /\ ~outParsed.some
    /\ outParsed' = Some(parse_tectonic_output(JoinLines(outLines[1]),
                                               JoinLines(outLines[2])))
    /\ UNCHANGED << outLines, fsVars, logVars >>

NextDirect ==
    \/ \E l \in OutLineInputs : EmitStdout(l)
    \/ \E l \in OutLineInputs : EmitStderr(l)
    \/ ParseOutput

SpecDirect == Init /\ [][NextDirect]_vars

(***************************************************************************)
(* Properties of build_compile                                             *)
(***************************************************************************)
\* the BuildResult of the response, when build_compile just returned one
Returned == last = "assemble_result"

Result == resp.data.val

\* the PDF of a project whose entry file is main.tex and outdir is out, as
\* every project of Spec is configured
MainPdf == "proj/out/main.pdf"

\* C1: every BuildResult returned has success = TRUE exactly when the
\* subprocess exited with success and the PDF exists on disk, whatever the
\* errors list holds.
C1_SuccessIffExitAndPdf ==
    Returned => (Result.success <=> (proc.val.exit_ok /\ MainPdf \in DOMAIN disk))

\* C1 witness: a successful build whose errors list is not empty
C1_SuccessWithErrors ==
    Returned /\ Result.success /\ Result.errors # << >>

\* C2 as claimed: a compile that exits non-zero while the PDF of an earlier
\* run is still on disk returns success = TRUE.
C2_StalePdfSuccess ==
    (Returned /\ ~proc.val.exit_ok /\ proc.val.stale_pdf) => Result.success

\* C2 amended: such a compile returns success = FALSE, and still reports
\* the stale PDF as pdf_path.
C2_StalePdfNoSuccess ==
    (Returned /\ ~proc.val.exit_ok /\ proc.val.stale_pdf)
        => (~Result.success /\ Result.pdf_path = Some(MainPdf))

\* C2 witness: a returned build of a run that failed beside a stale PDF
C2_StalePdfFailedRun ==
    Returned /\ ~proc.val.exit_ok /\ proc.val.stale_pdf /\ MainPdf \in DOMAIN disk

\* C3: template_apply with a template id outside the catalog returns an
\* error and leaves the filesystem as it was.
C3_UnknownTemplateTouchesNothing ==
    [][\A t \in TemplateIdInputs \ TemplateIds, f \in {0, 1} :
           template_apply(t, "My Paper", f) => (~resp'.ok /\ disk' = disk)]_vars

\* the project's configuration file parses and names an engine type other
\* than the two recognized ones
UnrecognizedEngine ==
    /\ ConfigPath(ProjectDir) \in DOMAIN disk
    /\ disk[ConfigPath(ProjectDir)].kind = "yaml"
    /\ disk[ConfigPath(ProjectDir)].cfg.engine.engine_type \notin {"tectonic", "latexmk"}

\* C6: build_compile on a project whose engine type is unrecognized ends
\* in the same step with an error response, the filesystem unchanged and no
\* command handed to the system.
C6_UnknownEngineNoEffect ==
    [][(pc = "idle" /\ UnrecognizedEngine /\ last' = "build_compile")
           => (pc' = "idle" /\ ~resp'.ok /\ disk' = disk /\ cmd' = None)]_vars

\* C6 witness: build_compile has just refused an unrecognized engine type
C6_UnknownEngineRefused ==
    /\ last = "build_compile"
    /\ pc = "idle"
    /\ UnrecognizedEngine
    /\ resp = ApiError("Unknown engine type: xelatex")

\* the flags a strategy derives from CompileConfig
IsCompileFlag(a, config) ==
    \/ a \in {"--outdir=" \o config.compile.outdir, "-outdir=" \o config.compile.outdir}
    \/ a \in {"-pdf", "-interaction=nonstopmode"}
    \/ (config.compile.synctex /\ a \in {"--synctex", "-synctex=1"})
    \/ (config.compile.shell_escape /\ a = "-shell-escape")

\* C5: the argument list of either engine is flags derived from
\* CompileConfig, then the entry file, then EngineConfig.args verbatim.
C5_ArgsEndWithEngineArgs ==
    cmd.some =>
        LET a == cmd.val.args
            x == cfg.val.engine.args
            k == Len(a) - Len(x)
        IN  /\ k >= 1
            /\ SubSeq(a, k + 1, Len(a)) = x
            /\ a[k] = cfg.val.main
            /\ \A i \in 1 .. (k - 1) : IsCompileFlag(a[i], cfg.val)

\* C9: the path whose existence is checked and reported is
\* <project_dir>/<outdir>/<stem>.pdf, the stem being the entry file's name
\* without its last extension.
C9_PdfPathFromStem ==
    Returned =>
        LET expected == Join(Join(ProjectDir, cfg.val.compile.outdir),
                             FileStem(cfg.val.main) \o ".pdf")
        IN  /\ build.val.checked = expected
            /\ Result.pdf_path.some => Result.pdf_path.val = expected

(***************************************************************************)
(* Properties of the diagnostics extractor                                 *)
(***************************************************************************)
UpperLetters == "ABCDEFGHIJKLMNOPQRSTUVWXYZ"

LowerLetters == "abcdefghijklmnopqrstuvwxyz"

RECURSIVE ToLower(_)
ToLower(s) ==
    IF s = "" THEN ""
    ELSE LET p == Find(UpperLetters, Head(s))
         IN  (IF p = -1 THEN Head(s) ELSE SubSeq(LowerLetters, p + 1, p + 1))
             \o ToLower(Tail(s))

\* the line contains pat in some letter case
ContainsAnyCase(line, pat) == Contains(ToLower(line), pat)

\* how often message m occurs among the records / the lines of a sequence
Records(seq, m) == Cardinality({ i \in 1 .. Len(seq) : seq[i].message = m })

Occurrences(lines, l) == Cardinality({ i \in 1 .. Len(lines) : lines[i] = l })

Messages(seq) == [i \in 1 .. Len(seq) |-> seq[i].message]

\* the lines handed to parse_tectonic_output, stdout's first
OutInput == outLines[1] \o outLines[2]

\* C7: every line with "error:" in any letter case is recorded as an error
\* without location, and every other line with "warning:" in any letter
\* case as a warning without location.
C7_AnyCaseRecorded ==
    outParsed.some =>
        \A i \in 1 .. Len(OutInput) :
            LET l == OutInput[i]
            IN  /\ ContainsAnyCase(l, "error:")
                    => \E j \in 1 .. Len(outParsed.val.errors) :
                           outParsed.val.errors[j] = Diagnostic(None, None, l)
                /\ (ContainsAnyCase(l, "warning:") /\ ~ContainsAnyCase(l, "error:"))
                    => \E j \in 1 .. Len(outParsed.val.warnings) :
                           outParsed.val.warnings[j] = Diagnostic(None, None, l)

\* C8: a line with both "error:" and "warning:" gives one error record and
\* no warning record; no line gives more than one record; the records keep
\* the order of the lines.
C8_ErrorBeforeWarning ==
    outParsed.some =>
        LET E == outParsed.val.errors
            W == outParsed.val.warnings
        IN  /\ \A i \in 1 .. Len(OutInput) :
                   LET l == OutInput[i]
                   IN  /\ (Contains(l, "error:") /\ Contains(l, "warning:"))
                           => /\ Records(E, l) = Occurrences(OutInput, l)
                              /\ Records(W, l) = 0
                       /\ Records(E, l) + Records(W, l) <= Occurrences(OutInput, l)
            /\ Len(E) + Len(W) <= Len(OutInput)
            /\ Messages(E) = SelectSeq(OutInput, LAMBDA l : Records(E, l) > 0)
            /\ Messages(W) = SelectSeq(OutInput, LAMBDA l : Records(W, l) > 0)

\* C8 witness: an output with such a line, and another line, was parsed
C8_BothOnOneLine ==
    /\ outParsed.some
    /\ Len(OutInput) > 1
    /\ \E i \in 1 .. Len(OutInput) :
           /\ Contains(OutInput[i], "error:")
           /\ Contains(OutInput[i], "warning:")
           /\ Records(outParsed.val.errors, OutInput[i]) = 1

\* the line has a <path>.tex:<n> pattern
HasTexRef(line) ==
    LET pos == Find(line, ".tex:")
    IN  /\ pos # -1
        /\ Len(line) >= pos + 6
        /\ IsDigit(SubSeq(line, pos + 6, pos + 6))

RECURSIVE LeadingDigits(_)
LeadingDigits(s) ==
    IF s = "" \/ ~IsDigit(Head(s)) THEN ""
    ELSE Head(s) \o LeadingDigits(Tail(s))

\* <n> of the pattern
TexRefLine(line) == DecimalValue(LeadingDigits(StrFrom(line, Find(line, ".tex:") + 5)))

\* <path> of the pattern, a leading "./" removed
TexRefFile(line) ==
    LET upto == StrTo(line, Find(line, ".tex:") + 4)
        path == StrFrom(upto, RFind(upto, " ") + 1)
    IN  IF StartsWith(path, "./") THEN StrFrom(path, 2) ELSE path

IsMarker(line) == StartsWith(line, "! ")

\* the place among the errors of the marker on line m (1-based)
MarkerRank(m) == Cardinality({ i \in 1 .. m : IsMarker(logLines[i]) })

\* C4: when a line with a <path>.tex:<n> pattern is the nearest such line
\* within the 5 lines before an error marker, the error recorded for the
\* marker carries that path and that number.
C4_LocationFromNearestLine ==
    logParsed.some =>
        \A m \in 1 .. Len(logLines) : \A k \in 1 .. 5 :
            (/\ IsMarker(logLines[m])
             /\ m - k >= 1
             /\ HasTexRef(logLines[m - k])
             /\ \A j \in 1 .. (k - 1) : ~HasTexRef(logLines[m - j]))
            => /\ Len(logParsed.val.errors) >= MarkerRank(m)
               /\ logParsed.val.errors[MarkerRank(m)].file
                      = Some(TexRefFile(logLines[m - k]))
               /\ logParsed.val.errors[MarkerRank(m)].line
                      = Some(TexRefLine(logLines[m - k]))

\* C10: every error marker is recorded; when none of the up to 5 lines
\* before it has a .tex:<n> pattern, whatever lies further back, the error
\* carries no file and no line.
C10_NoLocationWithoutPattern ==
    logParsed.some =>
        \A m \in 1 .. Len(logLines) :
            IsMarker(logLines[m])
            => /\ Len(logParsed.val.errors) >= MarkerRank(m)
               /\ (\A k \in 1 .. 5 : m - k >= 1 => ~HasTexRef(logLines[m - k]))
                  => /\ logParsed.val.errors[MarkerRank(m)].file = None
                     /\ logParsed.val.errors[MarkerRank(m)].line = None

(***************************************************************************)
(* Properties of template_apply                                            *)
(***************************************************************************)
\* what the steps of template_apply create, in the order the claim lists them
StepPaths ==
    << "proj", "proj/main.tex", "proj/refs.bib", "proj/figures",
       "proj/sections", "proj/.easypaper", "proj/.easypaper/project.yml",
       "proj/out", "proj/.gitignore" >>

\* what step i leaves at its path
StepResult(i, template_id, project_name) ==
    CASE i = 2 -> TextFile(TemplateBody(template_id).val)
      [] i = 3 -> TextFile("BIB_TEMPLATE")
      [] i = 7 -> YamlFile(ProjectConfig(1, project_name, "main.tex",
                                         EngineConfig("tectonic", << >>),
                                         CompileConfig(TRUE, FALSE, "out", 600)))
      [] i = 9 -> TextFile("GITIGNORE")
      [] OTHER -> DirEntry

\* C11: template_apply with a known template id runs its nine steps in the
\* listed order: when step f fails the call returns an error, every step
\* before f has left its result on disk, no step from f on has changed its
\* path, and nothing that was on disk is removed; when no step fails the
\* call returns success with every step's result on disk.
C11_StepsInOrderAbortNoRollback ==
    [][\A t \in TemplateIds, f \in 0 .. Len(StepPaths) :
           template_apply(t, "Thesis", f) =>
               /\ resp'.ok <=> (f = 0)
               /\ \A i \in 1 .. Len(StepPaths) :
                      IF f = 0 \/ i < f
                      THEN /\ Exists(disk', StepPaths[i])
                           /\ disk'[StepPaths[i]] = StepResult(i, t, "Thesis")
                      ELSE /\ Exists(disk', StepPaths[i]) <=> Exists(disk, StepPaths[i])
                           /\ Exists(disk, StepPaths[i])
                                  => disk'[StepPaths[i]] = disk[StepPaths[i]]
               /\ \A q \in DOMAIN disk : Exists(disk', q)
               /\ \A q \in DOMAIN disk' :
                      (\A i \in 1 .. Len(StepPaths) : q # StepPaths[i])
                          => (Exists(disk, q) /\ disk'[q] = disk[q])]_vars

\* a call that failed at "create the output directory": the configuration is
\* persisted, the output directory and .gitignore are not there
C11_AbortedAtOutputDir ==
    /\ last = "template_apply"
    /\ ~resp.ok
    /\ Exists(disk, "proj/.easypaper/project.yml")
    /\ disk["proj/.easypaper/project.yml"].kind = "yaml"
    /\ Exists(disk, "proj/main.tex")
    /\ ~Exists(disk, "proj/out")
    /\ ~Exists(disk, "proj/.gitignore")

(***************************************************************************)
(* Properties of ProjectConfig::load, as build_compile and build_clean     *)
(* use it                                                                  *)
(***************************************************************************)
\* the default record, field by field
DocumentedDefault ==
    [version |-> 1, name |-> "My Paper", main |-> "main.tex",
     engine  |-> [engine_type |-> "tectonic", args |-> << >>],
     compile |-> [synctex |-> TRUE, shell_escape |-> FALSE, outdir |-> "out",
                  min_interval_ms |-> 600]]

NoConfigFile == ~Exists(disk, ConfigPath(ProjectDir))

\* C12: in a project without .easypaper/project.yml, load gives exactly the
\* default record and no error: build_compile holds that record and goes on
\* to create proj/out and run tectonic with --outdir=out (or fails at
\* creating the directory, never at loading), and build_clean succeeds with
\* proj/out gone (or fails at removing it, never at loading).
C12_MissingConfigIsDefault ==
    [][NoConfigFile =>
          /\ (\E ok \in BOOLEAN : build_compile(ok)) =>
                 /\ cfg' = Some(DocumentedDefault)
                 /\ IF pc' = "spawn"
                    THEN Exists(disk', "proj/out")
                    ELSE resp'.error = Some("Failed to create output directory")
          /\ (pc = "spawn" /\ last' = "engine_run") =>
                 /\ cmd'.val.program = "tectonic"
                 /\ cmd'.val.args = << "--outdir=out", "--synctex", "main.tex" >>
          /\ (\E rm_ok \in BOOLEAN : build_clean(rm_ok)) =>
                 IF resp'.ok
                 THEN ~Exists(disk', "proj/out")
                 ELSE resp'.error = Some("Failed to clean output directory")]_vars

\* tectonic has run for a project that has no configuration file
C12_DefaultedCompile ==
    /\ last = "engine_run"
    /\ pc = "verify"
    /\ NoConfigFile
    /\ cfg = Some(DocumentedDefault)
    /\ cmd.val.program = "tectonic"
    /\ Exists(disk, "proj/out")

(***************************************************************************)
(* Properties of template_apply followed by build_compile                  *)
(***************************************************************************)
\* the project as template_apply(dir, "article", "My Paper") leaves it
ScaffoldedArticle ==
    \A i \in 1 .. Len(StepPaths) :
        /\ Exists(disk, StepPaths[i])
        /\ disk[StepPaths[i]] = StepResult(i, "article", "My Paper")

\* the subprocess printed no line with "error:" or "warning:" in it
QuietRun ==
    \A l \in { ToLower(Lines(proc.val.stdout)[i]) : i \in 1 .. Len(Lines(proc.val.stdout)) }
          \cup { ToLower(Lines(proc.val.stderr)[i]) : i \in 1 .. Len(Lines(proc.val.stderr)) } :
        ~Contains(l, "error:") /\ ~Contains(l, "warning:")

\* C13: build_compile of a project that template_apply(dir, "article",
\* "My Paper") has set up, with a tectonic run that exits 0, prints no error
\* or warning line and leaves out/main.pdf, returns a success envelope with
\* success = TRUE, pdf_path = Some(dir/out/main.pdf), no log_path, and empty
\* errors and warnings.
C13_ApplyThenCompile ==
    (/\ Returned
     /\ ScaffoldedArticle
     /\ cmd.val.program = "tectonic"
     /\ proc.val.exit_ok
     /\ QuietRun
     /\ Exists(disk, MainPdf))
        => resp = [ok    |-> TRUE,
                   data  |-> Some([success  |-> TRUE,
                                   pdf_path |-> Some("proj/out/main.pdf"),
                                   log_path |-> None,
                                   errors   |-> << >>,
                                   warnings |-> << >>]),
                   error |-> None]

\* such a compile has returned, its PDF written by the run itself and its
\* output not empty
C13_ScaffoldCompiled ==
    /\ Returned
    /\ ScaffoldedArticle
    /\ cmd.val.program = "tectonic"
    /\ proc.val.exit_ok
    /\ QuietRun
    /\ proc.val.stdout # ""
    /\ ~proc.val.stale_pdf
    /\ Exists(disk, MainPdf)
    /\ Result.success

(***************************************************************************)
(* Properties of build_clean                                               *)
(***************************************************************************)
\* project.yml is absent or parses
ConfigLoads ==
    NoConfigFile \/ disk[ConfigPath(ProjectDir)].kind = "yaml"

\* the output directory, out in every configuration of Spec
OutputDir == "proj/out"

\* C14 as claimed: build_clean with the output directory absent returns
\* success and leaves the disk as it is; of two consecutive build_clean calls
\* both return success; after a successful one the output directory is gone.
C14_CleanTwiceSucceeds ==
    [][(\E rm_ok \in BOOLEAN : build_clean(rm_ok)) =>
          /\ ~Exists(disk, OutputDir) => (resp'.ok /\ disk' = disk)
          /\ last = "build_clean" => (resp.ok /\ resp'.ok)
          /\ resp'.ok => ~Exists(disk', OutputDir)]_vars

\* C14: build_clean of a project whose configuration loads and whose output
\* directory is absent returns success and leaves the disk as it is; a
\* build_clean that follows a successful build_clean returns success and
\* leaves the disk as it is; after a successful one the output directory is
\* gone.
C14_CleanAfterCleanSucceeds ==
    [][(\E rm_ok \in BOOLEAN : build_clean(rm_ok)) =>
          /\ (ConfigLoads /\ ~Exists(disk, OutputDir)) => (resp'.ok /\ disk' = disk)
          /\ (last = "build_clean" /\ resp.ok) => (resp'.ok /\ disk' = disk)
          /\ resp'.ok => ~Exists(disk', OutputDir)]_vars

\* build_clean has removed the output directory of a scaffolded project and
\* may be called again
C14_CleanedProject ==
    /\ last = "build_clean"
    /\ resp.ok
    /\ Exists(disk, "proj/main.tex")
    /\ ~Exists(disk, OutputDir)

(***************************************************************************)
(* Properties of the SyncTeX bridge                                        *)
(***************************************************************************)
\* none of the listed install paths exists
NoInstallPath == \A i \in 2 .. Len(SynctexPaths) : ~Exists(disk, SynctexPaths[i])

\* C15: a query on a machine where none of the listed install paths exists
\* and the bare command synctex cannot be launched returns the "SyncTeX not
\* installed" error, not "Failed to run synctex".
C15_NotInstalledIsReported ==
    (/\ last \in {"synctex_forward", "synctex_backward"}
     /\ NoInstallPath
     /\ ~Launchable(disk, "synctex"))
        => /\ ~resp.ok
           /\ resp.error = Some("SyncTeX not installed. Please install MacTeX or TeX Live.")

(***************************************************************************)
(* Properties of build_compile under concurrent calls                      *)
(***************************************************************************)
\* C16: every BuildResult returned by build_compile with success = TRUE has
\* a pdf_path, and one without pdf_path has success = FALSE, whatever other
\* calls on the project ran between the steps of the compile.
C16_SuccessHasPdfPath ==
    Returned => /\ Result.success => Result.pdf_path.some
                /\ ~Result.pdf_path.some => ~Result.success

=========================================================================
